---- MODULE Spec2Model ----
(***************************************************************************)
(* radye: the preprocessing pipeline (radye/preprocessor.py) and the       *)
(* bounding-box cropping utilities (radye/utilities.py).                   *)
(*                                                                         *)
(* Two specifications share this module:                                   *)
(*   SpecVol  find_zeros and crop_scans applied to concrete voxel arrays;  *)
(*   Spec     the Preprocessor object: construction, run and its three     *)
(*            stages, over a symbolic file system.                         *)
(***************************************************************************)
EXTENDS Naturals, Integers, Sequences, FiniteSets, TLC

VARIABLES
    \* ---- SpecVol: numpy arrays and the results of the utilities
    img_array,      \* the array handed to find_zeros / held by the reference file
    vpc,            \* "input" | "find_zeros" | "crop_scans" | "off"
    ret,            \* what the called utility returned / wrote
    \* ---- Spec: the Preprocessor and the file system
    args,           \* the arguments of Preprocessor.__init__
    self,           \* the fields __init__ sets
    dirs,           \* directories that exist below output_folder
    fs,             \* path -> content of every file that exists
    pc,             \* position of the caller / of run()
    i,              \* index of the running for-loop
    locals,         \* img_reference and reg_tomni of _run_coregistration
    log,            \* the collaborator calls of the current run, in order
    runs,           \* number of calls of run()
    raised,         \* the exception a collaborator raised, if any
    error,          \* the exception that reached the caller of run()
    before          \* history: the files that existed when run() was called

volvars == <<img_array, vpc, ret>>
ppvars == <<args, self, dirs, fs, pc, i, locals, log, runs, raised, error, before>>
vars == <<img_array, vpc, ret, args, self, dirs, fs, pc, i, locals, log, runs, raised, error,
          before>>

\* ---------------------------------------------------------------- bounds
MaxDim == 4         \* largest extent of an axis of a generated array
MaxVoxels == 36     \* most voxels of a generated 3-D array
MaxSparse == 1      \* most voxels that differ from a uniform background
MaxFrames == 2      \* extent of the 4th axis of a generated 4-D array

\* ------------------------------------------------------------ arithmetic
SetMin(S) == CHOOSE m \in S : \A n \in S : m <= n
SetMax(S) == CHOOSE m \in S : \A n \in S : n <= m

\* ------------------------------------------------------- arrays (numpy)
\* An array is [shape |-> <<x_dim, y_dim, z_dim>> or <<x_dim, y_dim, z_dim, t_dim>>,
\*              data  |-> [index tuple -> value]], indices from 0.
Grid(shape) ==
    IF Len(shape) = 3
    THEN (0 .. shape[1] - 1) \X (0 .. shape[2] - 1) \X (0 .. shape[3] - 1)
    ELSE (0 .. shape[1] - 1) \X (0 .. shape[2] - 1) \X (0 .. shape[3] - 1)
             \X (0 .. shape[4] - 1)

\* np.amax(img_array, axis=3)
Amax3(arr) ==
    [shape |-> SubSeq(arr.shape, 1, 3),
     data  |-> [v \in Grid(SubSeq(arr.shape, 1, 3)) |->
                  SetMax({arr.data[<<v[1], v[2], v[3], t>>] :
                             t \in 0 .. arr.shape[4] - 1})]]

\* np.where(img_array == 0.0): the index tuples of the zero voxels
WhereZero(arr) == {v \in Grid(arr.shape) : arr.data[v] = 0}

\* np.bincount(a_zeros) for the axis-a coordinates of the zero voxels: an
\* array of length max(a_zeros) + 1 (empty when there is no zero voxel);
\* entry k (held at position k + 1) counts the zero voxels of plane k.
Bincount(zeros, a) ==
    IF zeros = {} THEN <<>>
    ELSE [k \in 1 .. SetMax({v[a] : v \in zeros}) + 1 |->
             Cardinality({v \in zeros : v[a] = k - 1})]

\* (a_to_keep, ) = np.where(np.bincount(a_zeros) < plane)
ToKeep(counts, plane) == {k - 1 : k \in {j \in 1 .. Len(counts) : counts[j] < plane}}

\* mutant: the fallback stops one plane short of the full extent
AxisFallbackShort(dim) == <<0, dim - 1>>

\* mutant: the fallback is an empty range
AxisFallbackEmpty(dim) == <<0, 0>>

\* the except branch: a_min = 0, a_max = a_dim
AxisFallback(dim) == <<0, dim>>

\* mutant: the upper bound is the last kept index, not one past it
AxisKeptInclusive(to_keep) == <<SetMin(to_keep), SetMax(to_keep)>>

\* the try branch: a_min = min(a_to_keep), a_max = max(a_to_keep) + 1
AxisKept(to_keep) == <<SetMin(to_keep), SetMax(to_keep) + 1>>

\* one try/except block of find_zeros; min() of an empty array raises
AxisBounds(zeros, a, dim, plane) ==
    LET to_keep == ToKeep(Bincount(zeros, a), plane)
    IN  IF to_keep = {} THEN AxisFallback(dim) ELSE AxisKept(to_keep)

find_zeros(arr) ==
    LET a3 == IF Len(arr.shape) = 4 THEN Amax3(arr) ELSE arr
        x_dim == a3.shape[1]
        y_dim == a3.shape[2]
        z_dim == a3.shape[3]
        zeros == WhereZero(a3)
        bx == AxisBounds(zeros, 1, x_dim, y_dim * z_dim)
        by == AxisBounds(zeros, 2, y_dim, x_dim * z_dim)
        bz == AxisBounds(zeros, 3, z_dim, x_dim * y_dim)
    IN  <<bx[1], bx[2], by[1], by[2], bz[1], bz[2]>>

\* mutant: the planes are all dropped from the upper end
CropFromOrigin(arr, low, high) ==
    LET shp == [a \in 1 .. 3 |-> arr.shape[a] - low[a] - high[a]]
    IN  [shape |-> shp, data |-> [v \in Grid(shp) |-> arr.data[v]]]

\* sitk.Crop(image, low, high): drop low[a] planes below and high[a] above
Crop(arr, low, high) ==
    LET shp == [a \in 1 .. 3 |-> arr.shape[a] - low[a] - high[a]]
    IN  [shape |-> shp,
         data  |-> [v \in Grid(shp) |->
                      arr.data[<<v[1] + low[1], v[2] + low[2], v[3] + low[3]>>]]]

\* crop_scans(reference, inputs, outputs) with img_crop_data = reference
crop_scans(reference, inputs) ==
    LET b == find_zeros(reference)
        low == <<b[1], b[3], b[5]>>
        high == <<reference.shape[1] - b[2], reference.shape[2] - b[4],
                  reference.shape[3] - b[6]>>
    IN  [bounds |-> b, low |-> low, high |-> high,
         outputs |-> [k \in 1 .. Len(inputs) |-> Crop(inputs[k], low, high)]]

\* ===================================================== the Preprocessor
MaxMods == 2        \* most modalities of a subject
MaxRuns == 2        \* most calls of run() on one Preprocessor

None == "<None>"            \* Python's None
NoPath == [folder |-> None, name |-> None]   \* None where a path is expected
Unset == "<unset>"          \* an attribute or local that was never assigned

\* modality names a caller may use as keys of subject_dict
Names == {"T1", "T2", "Label", "T1_mask"}

\* the code points of the names, as Python's str comparison sees them
CodePoints ==
    [n \in Names |->
        CASE n = "T1" -> <<84, 49>>
          [] n = "T2" -> <<84, 50>>
          [] n = "Label" -> <<76, 97, 98, 101, 108>>
          [] n = "T1_mask" -> <<84, 49, 95, 109, 97, 115, 107>>]

\* a < b for two sequences of code points (Python's str.__lt__)
RECURSIVE SeqLess(_, _)
SeqLess(a, b) ==
    IF a = <<>> THEN b /= <<>>
    ELSE IF b = <<>> THEN FALSE
    ELSE IF Head(a) /= Head(b) THEN Head(a) < Head(b)
    ELSE SeqLess(Tail(a), Tail(b))

\* mutant: the largest key
SortedLast(keys) ==
    CHOOSE m \in keys : \A n \in keys \ {m} : SeqLess(CodePoints[n], CodePoints[m])

\* sorted(self.modalities)[0]
SortedFirst(keys) ==
    CHOOSE m \in keys : \A n \in keys \ {m} : SeqLess(CodePoints[m], CodePoints[n])

Range(seq) == {seq[k] : k \in 1 .. Len(seq)}

\* list(self.modalities) followed by .remove(x)
Remove(seq, x) == SelectSeq(seq, LAMBDA m : m /= x)

\* ---- paths: a file is named by its folder and its name in the folder
Path(folder, name) == [folder |-> folder, name |-> name]
SubjectPath(mod) == Path("data", mod \o ".nii.gz")  \* subject_dict[mod]
LabelFile == Path("data", "label.nii.gz")           \* label_path, when given
OutputFolder == "out"                               \* output_folder

\* save_folder / f"{name}.nii.gz"
File(folder, name) == Path(folder, name \o ".nii.gz")

\* run_hd_bet writes the mask next to its output: <output stem>_mask.nii.gz
MaskOf(folder, name) == File(folder, name \o "_mask")

\* ---- contents of volumes: whose data it is, what produced it, on which grid
Content(of, how, grid) == [of |-> of, how |-> how, grid |-> grid]
NoContent == Content("", "", "")
ModalityInput(mod) == Content("modality:" \o mod, "input", "native:" \o mod)
LabelInput == Content("label", "input", "native:label")

\* a transform chain: reg["fwdtransforms"]
NoChain == [moving |-> "", fixed |-> "", run |-> 0]

\* get_mni(skull_stripped): the atlas, brain-only when skull_stripped
get_mni(skull_stripped) == IF skull_stripped THEN "mni_brain" ELSE "mni"
AtlasImage(mni_img) == Content("atlas", mni_img, "mni")

\* mutant: the registration of a later run gives another result
RegistrationUnstable(fixed, moving, run) ==
    [warpedmovout  |-> Content(moving.of, IF run = 1 THEN "registered" ELSE "registered again",
                               fixed.grid),
     fwdtransforms |-> [moving |-> moving.of, fixed |-> fixed.of, run |-> run]]

\* mutant: the output of apply_transforms stays on the grid of the moving image
ApplyTransformsNative(fixed, moving, chain, interpolator) ==
    Content(moving.of, "warped:" \o interpolator, moving.grid)

\* ants.registration(fixed, moving, "Affine")
Registration(fixed, moving, run) ==
    [warpedmovout  |-> Content(moving.of, "registered", fixed.grid),
     fwdtransforms |-> [moving |-> moving.of, fixed |-> fixed.of, run |-> run]]

\* ants.apply_transforms(fixed, moving, transformlist, interpolator)
ApplyTransforms(fixed, moving, chain, interpolator) ==
    Content(moving.of, "warped:" \o interpolator, fixed.grid)

\* writing content to path
Put(files, path, content) ==
    [q \in DOMAIN files \cup {path} |-> IF q = path THEN content ELSE files[q]]

\* ---- the arguments a caller may pass
Subjects ==
    {sd \in UNION {[1 .. n -> Names] : n \in 1 .. MaxMods} :
        \A j, k \in 1 .. Len(sd) : j /= k => sd[j] /= sd[k]}

\* the arguments of one construction; label_exists and missing say which of
\* the paths passed are files
Arguments(sd, ms, lp, le, pre, ref, ss, co, mni, cr) ==
    [subject_dict |-> sd, missing |-> ms, label_path |-> lp, label_exists |-> le,
     prefix |-> pre, reference |-> ref, do_skull_stripping |-> ss,
     do_coregistration |-> co, to_mni |-> mni, crop |-> cr]

\* the input files that exist when the Preprocessor is constructed
InputFiles(a) ==
    LET mods == Range(a.subject_dict) \ a.missing
        paths == {SubjectPath(m) : m \in mods}
                    \cup (IF a.label_path /= NoPath /\ a.label_exists
                          THEN {LabelFile} ELSE {})
    IN  [q \in paths |->
            IF q = LabelFile THEN LabelInput
            ELSE ModalityInput(CHOOSE m \in mods : SubjectPath(m) = q)]

NoSelf ==
    [reference |-> Unset, prefix |-> Unset, label_path |-> NoPath, mni_img |-> Unset,
     coregistration_folder |-> Unset, skullstrip_folder |-> Unset,
     cropping_folder |-> Unset]

NoLocals == [img_reference |-> NoContent, reg_tomni |-> NoChain, bounds |-> Unset]

VolOff == img_array = <<>> /\ vpc = "off" /\ ret = <<>>

Init ==
    /\ \E sd \in Subjects, lp \in {NoPath, LabelFile}, pre \in {None, "p_"},
          ref \in Names \cup {None} :
          \E ms \in SUBSET Range(sd),
             le \in (IF lp = NoPath THEN {TRUE} ELSE BOOLEAN),
             ss \in BOOLEAN, co \in BOOLEAN, mni \in BOOLEAN, cr \in BOOLEAN :
             args = Arguments(sd, ms, lp, le, pre, ref, ss, co, mni, cr)
    /\ self = NoSelf
    /\ dirs = {}
    /\ fs = InputFiles(args)
    /\ pc = "new"
    /\ i = 0
    /\ locals = NoLocals
    /\ log = <<>>
    /\ runs = 0
    /\ raised = ""
    /\ error = ""
    /\ before = <<>>
    /\ VolOff

\* ---- Preprocessor.__init__
\* mutant: the label path is not checked
ValidateNoLabel(a) ==
    IF a.reference /= None /\ a.reference \notin Range(a.subject_dict)
    THEN "AssertionError: Reference has to be one the imaging modality in subject_dict"
    ELSE IF a.missing /= {}
    THEN "AssertionError: doesn't exist"
    ELSE ""

\* the assertions of __init__, in order: "" when all hold, else the first to fail
Validate(a) ==
    IF a.reference /= None /\ a.reference \notin Range(a.subject_dict)
    THEN "AssertionError: Reference has to be one the imaging modality in subject_dict"
    ELSE IF a.missing /= {}
    THEN "AssertionError: doesn't exist"
    ELSE IF a.label_path /= NoPath /\ ~a.label_exists
    THEN "AssertionError: Label map doesn't exist"
    ELSE ""

\* the folders __init__ creates with ensure_exists
CreatedFolders(a) ==
    {OutputFolder \o "/coregistration"}
        \cup (IF a.do_skull_stripping THEN {OutputFolder \o "/skullstripping"} ELSE {})
        \cup (IF a.crop THEN {OutputFolder \o "/cropping"} ELSE {})

Construct ==
    /\ pc = "new"
    /\ IF Validate(args) /= ""
       THEN /\ pc' = "ctor_failed"
            /\ error' = Validate(args)
            /\ UNCHANGED <<self, dirs>>
       ELSE /\ self' =
                [reference |-> IF args.reference = None
                               THEN SortedFirst(Range(args.subject_dict))
                               ELSE args.reference,
                 prefix |-> IF args.prefix /= None THEN args.prefix ELSE "",
                 label_path |-> args.label_path,
                 mni_img |-> IF args.to_mni THEN get_mni(args.do_skull_stripping)
                             ELSE Unset,
                 coregistration_folder |-> OutputFolder \o "/coregistration",
                 skullstrip_folder |-> IF args.do_skull_stripping
                                       THEN OutputFolder \o "/skullstripping"
                                       ELSE OutputFolder \o "/coregistration",
                 cropping_folder |-> IF args.crop THEN OutputFolder \o "/cropping"
                                     ELSE Unset]
            /\ dirs' = dirs \cup CreatedFolders(args)
            /\ pc' = "ready"
            /\ UNCHANGED error
    /\ UNCHANGED <<args, fs, i, locals, log, runs, raised, volvars, before>>

\* ---- the stages of run()
Event(stage, of, call, fixed, interp, chain, reads, writes) ==
    [stage |-> stage, of |-> of, call |-> call, fixed |-> fixed, interp |-> interp,
     chain |-> chain, reads |-> reads, writes |-> writes]

At(p, k) == [pc |-> p, i |-> k]

\* run(): "if self.crop: self._run_cropping()", then return
AfterSkullstripping == IF args.crop THEN At("crop_box", 0) ELSE At("done", 0)

\* mutant: the skull-stripping stage runs whatever do_skull_stripping says
AfterCoregistrationAlways == At("sk_ref", 0)

\* run(): "if self.do_skull_stripping: self._run_skullstripping()"
AfterCoregistration ==
    IF args.do_skull_stripping THEN At("sk_ref", 0) ELSE AfterSkullstripping

\* modalities_toregister / modalities_tosk
OtherModalities == Remove(args.subject_dict, self.reference)

\* "for mod in modalities_toregister", from its k-th item on
CoregLoop(k) ==
    IF k <= Len(OtherModalities) THEN At("coreg_mod", k) ELSE AfterCoregistration

\* mutant: the label is skipped
AfterReferenceNoLabel == CoregLoop(1)

\* after the reference: the label when there is one, then the other modalities
AfterReference ==
    IF self.label_path /= NoPath THEN At("coreg_label", 0) ELSE CoregLoop(1)

CoregFile(name) == File(self.coregistration_folder, self.prefix \o name)
SkullFile(name) == File(self.skullstrip_folder, self.prefix \o name)
CropFile(name) == File(self.cropping_folder, self.prefix \o name)
MaskFile == MaskOf(self.skullstrip_folder, self.prefix \o self.reference)

\* the calls of _apply_mask, in order: one per other modality, then the label
SkullItems ==
    [k \in 1 .. Len(OtherModalities) |->
        [of |-> "modality:" \o OtherModalities[k],
         input_path |-> CoregFile(OtherModalities[k]),
         output_path |-> SkullFile(OtherModalities[k])]]
    \o (IF self.label_path /= NoPath
        THEN <<[of |-> "label", input_path |-> CoregFile("Label"),
                output_path |-> SkullFile("Label")]>>
        ELSE <<>>)

SkullLoop(k) ==
    IF k <= Len(SkullItems) THEN At("sk_resample", k) ELSE AfterSkullstripping

\* mutant: the cropping stage always reads the coregistration folder
CropItemsFromCoregistration ==
    [k \in 1 .. Len(args.subject_dict) |->
        [of |-> "modality:" \o args.subject_dict[k],
         input_path |-> CoregFile(args.subject_dict[k]),
         output_path |-> CropFile(args.subject_dict[k])]]
    \o (IF self.label_path /= NoPath
        THEN <<[of |-> "label", input_path |-> CoregFile("Label"),
                output_path |-> CropFile("Label")]>>
        ELSE <<>>)

\* zip(sk_images, cropped_images): every modality, then the label
CropItems ==
    [k \in 1 .. Len(args.subject_dict) |->
        [of |-> "modality:" \o args.subject_dict[k],
         input_path |-> SkullFile(args.subject_dict[k]),
         output_path |-> CropFile(args.subject_dict[k])]]
    \o (IF self.label_path /= NoPath
        THEN <<[of |-> "label", input_path |-> SkullFile("Label"),
                output_path |-> CropFile("Label")]>>
        ELSE <<>>)

CropLoop(k) == IF k <= Len(CropItems) THEN At("crop_img", k) ELSE At("done", 0)

\* "if self.to_mni" for the reference and the label
ReferenceBranch == IF args.to_mni THEN "to_mni" ELSE "save"

\* mutant: to_mni is not looked at, already co-registered scans are only saved
ModalityBranchIgnoreMni == IF args.do_coregistration THEN "save" ELSE "register"

\* mutant: every modality gets a registration of its own
ModalityBranchRegisterAlways == "register"

\* the nested "if self.do_coregistration" / "if self.to_mni" of the for-loop
ModalityBranch ==
    IF args.do_coregistration
    THEN IF args.to_mni THEN "apply_transforms" ELSE "save"
    ELSE "register"

\* mutant: the label is warped like an intensity image
LabelInterpolatorLinear == "linear"

\* ants.apply_transforms(..., interpolator="nearestNeighbor") for the label
LabelInterpolator == "nearestNeighbor"

\* the caller calls run(); _run_coregistration starts
RunCall ==
    /\ pc \in {"ready", "done"}
    /\ runs < MaxRuns
    /\ runs' = runs + 1
    /\ pc' = "coreg_ref"
    /\ i' = 0
    /\ locals' = NoLocals
    /\ log' = <<>>
    /\ before' = fs
    /\ UNCHANGED <<args, self, dirs, fs, raised, error, volvars>>

\* _run_coregistration: the reference, registered onto the atlas when to_mni
CoregReference ==
    /\ pc = "coreg_ref"
    /\ SubjectPath(self.reference) \in DOMAIN fs
    /\ LET src == SubjectPath(self.reference)
           img == fs[src]
           out == CoregFile(self.reference)
           reg == Registration(AtlasImage(self.mni_img), img, runs)
       IN  IF ReferenceBranch = "to_mni"
           THEN /\ locals' = [locals EXCEPT !.img_reference = reg.warpedmovout,
                                            !.reg_tomni = reg.fwdtransforms]
                /\ fs' = Put(fs, out, reg.warpedmovout)
                /\ log' = Append(log,
                        Event("coregistration", "modality:" \o self.reference,
                              "registration", AtlasImage(self.mni_img), "",
                              reg.fwdtransforms, {src}, {out}))
           ELSE /\ locals' = [locals EXCEPT !.img_reference = img]
                /\ fs' = Put(fs, out, img)
                /\ log' = Append(log,
                        Event("coregistration", "modality:" \o self.reference,
                              "copy", NoContent, "", NoChain, {src}, {out}))
    /\ pc' = AfterReference.pc
    /\ i' = AfterReference.i
    /\ UNCHANGED <<args, self, dirs, runs, raised, error, volvars, before>>

\* _run_coregistration: the label, warped by the reference's chain when to_mni
CoregLabel ==
    /\ pc = "coreg_label"
    /\ self.label_path \in DOMAIN fs
    /\ LET src == self.label_path
           img_label == fs[src]
           out == CoregFile("Label")
           warped_label == ApplyTransforms(AtlasImage(self.mni_img), img_label,
                                           locals.reg_tomni, LabelInterpolator)
       IN  IF ReferenceBranch = "to_mni"
           THEN /\ fs' = Put(fs, out, warped_label)
                /\ log' = Append(log,
                        Event("coregistration", "label", "apply_transforms",
                              AtlasImage(self.mni_img), LabelInterpolator,
                              locals.reg_tomni, {src}, {out}))
           ELSE /\ fs' = Put(fs, out, img_label)
                /\ log' = Append(log,
                        Event("coregistration", "label", "copy", NoContent, "",
                              NoChain, {src}, {out}))
    /\ pc' = CoregLoop(1).pc
    /\ i' = CoregLoop(1).i
    /\ UNCHANGED <<args, self, dirs, locals, runs, raised, error, volvars, before>>

\* _run_coregistration: one pass of "for mod in modalities_toregister"
CoregModality ==
    /\ pc = "coreg_mod"
    /\ SubjectPath(OtherModalities[i]) \in DOMAIN fs
    /\ LET mod == OtherModalities[i]
           src == SubjectPath(mod)
           img_mod == fs[src]
           out == CoregFile(mod)
           warped_img == ApplyTransforms(AtlasImage(self.mni_img), img_mod,
                                         locals.reg_tomni, "linear")
           reg == Registration(locals.img_reference, img_mod, runs)
       IN  CASE ModalityBranch = "apply_transforms" ->
                  /\ fs' = Put(fs, out, warped_img)
                  /\ log' = Append(log,
                          Event("coregistration", "modality:" \o mod,
                                "apply_transforms", AtlasImage(self.mni_img),
                                "linear", locals.reg_tomni, {src}, {out}))
             [] ModalityBranch = "save" ->
                  /\ fs' = Put(fs, out, img_mod)
                  /\ log' = Append(log,
                          Event("coregistration", "modality:" \o mod, "copy",
                                NoContent, "", NoChain, {src}, {out}))
             [] ModalityBranch = "register" ->
                  /\ fs' = Put(fs, out, reg.warpedmovout)
                  /\ log' = Append(log,
                          Event("coregistration", "modality:" \o mod, "registration",
                                locals.img_reference, "", reg.fwdtransforms,
                                {src}, {out}))
    /\ pc' = CoregLoop(i + 1).pc
    /\ i' = CoregLoop(i + 1).i
    /\ UNCHANGED <<args, self, dirs, locals, runs, raised, error, volvars, before>>

\* _run_skullstripping: run_hd_bet on the coregistered reference
SkullReference ==
    /\ pc = "sk_ref"
    /\ CoregFile(self.reference) \in DOMAIN fs
    /\ LET ref_co == CoregFile(self.reference)
           ref_sk == SkullFile(self.reference)
           mask_sk == MaskFile
           brain == Content(fs[ref_co].of, "brain", fs[ref_co].grid)
           mask == Content("mask", "mask", fs[ref_co].grid)
       IN  /\ fs' = Put(Put(fs, ref_sk, brain), mask_sk, mask)
           /\ log' = Append(log,
                   Event("skullstripping", "modality:" \o self.reference,
                         "run_hd_bet", NoContent, "", NoChain, {ref_co},
                         {ref_sk, mask_sk}))
    /\ pc' = SkullLoop(1).pc
    /\ i' = SkullLoop(1).i
    /\ UNCHANGED <<args, self, dirs, locals, runs, raised, error, volvars, before>>

\* _apply_mask, first half: resample the input onto the reference, write it
ApplyMaskResample ==
    /\ pc = "sk_resample"
    /\ {SkullItems[i].input_path, SkullFile(self.reference)} \subseteq DOMAIN fs
    /\ LET item == SkullItems[i]
           input_img == fs[item.input_path]
           ref_img == fs[SkullFile(self.reference)]
           output_img == Content(input_img.of, "resampled", ref_img.grid)
       IN  /\ fs' = Put(fs, item.output_path, output_img)
           /\ log' = Append(log,
                   Event("skullstripping", item.of, "resample", ref_img,
                         "nearestNeighbor", NoChain,
                         {item.input_path, SkullFile(self.reference)},
                         {item.output_path}))
    /\ pc' = "sk_mask"
    /\ UNCHANGED <<args, self, dirs, i, locals, runs, raised, error, volvars, before>>

\* _apply_mask, second half: reload the output, zero it outside the mask, save
ApplyMaskMask ==
    /\ pc = "sk_mask"
    /\ {SkullItems[i].output_path, MaskFile} \subseteq DOMAIN fs
    /\ LET item == SkullItems[i]
           output_img == fs[item.output_path]
           mask_data == fs[MaskFile]
           masked == Content(output_img.of, "masked by " \o mask_data.of,
                             output_img.grid)
       IN  /\ fs' = Put(fs, item.output_path, masked)
           /\ log' = Append(log,
                   Event("skullstripping", item.of, "mask", NoContent, "", NoChain,
                         {item.output_path, MaskFile}, {item.output_path}))
    /\ pc' = SkullLoop(i + 1).pc
    /\ i' = SkullLoop(i + 1).i
    /\ UNCHANGED <<args, self, dirs, locals, runs, raised, error, volvars, before>>

\* _run_cropping and the head of crop_scans: the box of the reference
CropBounds ==
    /\ pc = "crop_box"
    /\ SkullFile(self.reference) \in DOMAIN fs
    /\ LET ref_sk == SkullFile(self.reference)
       IN  /\ locals' = [locals EXCEPT !.bounds = "find_zeros of " \o fs[ref_sk].of]
           /\ log' = Append(log,
                   Event("cropping", "modality:" \o self.reference, "find_zeros",
                         NoContent, "", NoChain, {ref_sk}, {}))
    /\ pc' = CropLoop(1).pc
    /\ i' = CropLoop(1).i
    /\ UNCHANGED <<args, self, dirs, fs, runs, raised, error, volvars, before>>

\* crop_scans: one pass of "for input_path, output_path in zip(inputs, outputs)"
CropImage ==
    /\ pc = "crop_img"
    /\ CropItems[i].input_path \in DOMAIN fs
    /\ LET item == CropItems[i]
           image == fs[item.input_path]
       IN  /\ fs' = Put(fs, item.output_path,
                        Content(image.of, "cropped", image.grid))
           /\ log' = Append(log,
                   Event("cropping", item.of, "crop", NoContent, "", NoChain,
                         {item.input_path}, {item.output_path}))
    /\ pc' = CropLoop(i + 1).pc
    /\ i' = CropLoop(i + 1).i
    /\ UNCHANGED <<args, self, dirs, locals, runs, raised, error, volvars, before>>

\* ---- failures of the collaborators
Running == {"coreg_ref", "coreg_label", "coreg_mod", "sk_ref", "sk_resample",
            "sk_mask", "crop_box", "crop_img"}

\* the collaborator calls made at each position
Collaborators(p) ==
    CASE p = "coreg_ref" ->
            {"ants.image_read", "ants.image_write"}
                \cup (IF args.to_mni THEN {"ants.registration"} ELSE {})
      [] p = "coreg_label" ->
            {"ants.image_read", "ants.image_write"}
                \cup (IF args.to_mni THEN {"ants.apply_transforms"} ELSE {})
      [] p = "coreg_mod" ->
            {"ants.image_read", "ants.image_write"}
                \cup (IF ModalityBranch = "register" THEN {"ants.registration"}
                      ELSE IF ModalityBranch = "apply_transforms"
                      THEN {"ants.apply_transforms"} ELSE {})
      [] p = "sk_ref" -> {"run_hd_bet"}
      [] p = "sk_resample" -> {"sitk.ReadImage", "sitk.Resample", "sitk.WriteImage"}
      [] p = "sk_mask" -> {"nib.load", "nib.save"}
      [] p = "crop_box" -> {"nib.load"}
      [] p = "crop_img" -> {"sitk.ReadImage", "sitk.Crop", "sitk.WriteImage"}

\* neither run() nor a stage has a try/except: the exception passes unchanged
Propagate(exc) == exc

\* mutant: the outputs written so far are removed when a stage fails
FilesAfterFailureCleanup(files) == InputFiles(args)

\* neither run() nor a stage removes a file
FilesAfterFailure(files) == files

\* the exception ends run(): no statement of run() or of a stage follows
AfterFailure(p) == "failed"

\* a collaborator call raises
Fail ==
    /\ pc \in Running
    /\ \E exc \in Collaborators(pc) :
          /\ raised' = exc
          /\ error' = Propagate(exc)
    /\ pc' = AfterFailure(pc)
    /\ fs' = FilesAfterFailure(fs)
    /\ UNCHANGED <<args, self, dirs, i, locals, log, runs, volvars, before>>

Next ==
    \/ Construct
    \/ RunCall
    \/ CoregReference
    \/ CoregLabel
    \/ CoregModality
    \/ SkullReference
    \/ ApplyMaskResample
    \/ ApplyMaskMask
    \/ CropBounds
    \/ CropImage
    \/ Fail

Spec == Init /\ [][Next]_vars

\* ------------------------------------------------ Spec: claims C4 - C10
Constructed == pc \notin {"new", "ctor_failed", "off"}
LogIndex == 1 .. Len(log)
IsReference(of) == of = "modality:" \o self.reference
StageEvents(stage) == {k \in LogIndex : log[k].stage = stage}
StageRank(stage) ==
    CASE stage = "coregistration" -> 1
      [] stage = "skullstripping" -> 2
      [] stage = "cropping" -> 3

\* the five documented branches, as functions of the three booleans
DocumentedBranch(to_mni, do_coregistration, is_reference) ==
    IF is_reference
    THEN IF to_mni THEN "anchor registration to atlas" ELSE "pass-through"
    ELSE IF do_coregistration
         THEN IF to_mni THEN "reuse anchor transform" ELSE "pass-through"
         ELSE IF to_mni THEN "independent registration"
              ELSE "direct registration to reference"

\* what a logged coregistration call did, in the words of the five branches
Performed(e) ==
    CASE e.call = "registration" /\ e.fixed.of = "atlas" ->
            "anchor registration to atlas"
      [] e.call = "apply_transforms" /\ e.chain /= NoChain ->
            "reuse anchor transform"
      [] e.call = "registration" /\ IsReference(e.fixed.of)
            /\ e.fixed.how = "registered" /\ e.fixed.grid = "mni" ->
            "independent registration"
      [] e.call = "registration" /\ IsReference(e.fixed.of)
            /\ e.fixed.how = "input" ->
            "direct registration to reference"
      [] e.call = "copy" -> "pass-through"
      [] OTHER -> "undocumented"

ModalityEvents ==
    {k \in StageEvents("coregistration") : log[k].of /= "label"}

Registrations == {k \in LogIndex : log[k].call = "registration"}

StageLength(stage) ==
    CASE stage = "coregistration" ->
            1 + (IF self.label_path /= NoPath THEN 1 ELSE 0) + Len(OtherModalities)
      [] stage = "skullstripping" -> 1 + 2 * Len(SkullItems)
      [] stage = "cropping" -> 1 + Len(CropItems)

StageEnabled(stage) ==
    CASE stage = "coregistration" -> TRUE
      [] stage = "skullstripping" -> args.do_skull_stripping
      [] stage = "cropping" -> args.crop

Stages == {"coregistration", "skullstripping", "cropping"}

\* C6: every call of run executes the coregistration stage, then the
\* skull-stripping stage iff do_skull_stripping, then the cropping stage iff
\* crop, in that order: a stage starts only after every enabled earlier stage
\* has finished, a disabled stage performs no action, and a run that returns
\* has completed every enabled stage.
C6_StageOrder ==
    Constructed =>
        /\ \A j, k \in LogIndex :
              j < k => StageRank(log[j].stage) <= StageRank(log[k].stage)
        /\ \A k \in LogIndex : StageEnabled(log[k].stage)
        /\ \A s \in Stages :
              (/\ StageEnabled(s)
               /\ \E k \in LogIndex : StageRank(s) < StageRank(log[k].stage)) =>
                  Cardinality(StageEvents(s)) = StageLength(s)
        /\ pc = "done" =>
              \A s \in Stages :
                  StageEnabled(s) => Cardinality(StageEvents(s)) = StageLength(s)

\* a run of all three stages on two modalities and a label has returned
C6_Witness ==
    /\ pc = "done" /\ args.do_skull_stripping /\ args.crop
    /\ Len(args.subject_dict) = 2 /\ self.label_path /= NoPath
    /\ Len(log) = 3 + 5 + 4

FolderOf(stage) ==
    CASE stage = "coregistration" -> OutputFolder \o "/coregistration"
      [] stage = "skullstripping" -> OutputFolder \o "/skullstripping"
      [] stage = "cropping" -> OutputFolder \o "/cropping"
InFolder(path, folder) == path.folder = folder
IsInput(path) == path = args.label_path \/ path \in {SubjectPath(m) : m \in Names}

\* the event of this run that wrote the file read by event k, if any
WrittenBefore(path, k) == {j \in 1 .. k - 1 : path \in log[j].writes}

\* the folder the cropping stage reads
CropSource ==
    IF args.do_skull_stripping THEN FolderOf("skullstripping")
    ELSE FolderOf("coregistration")

\* C7 as claimed: every file a stage reads was written in this run by an
\* earlier stage (or is an input, for coregistration); skull-stripping reads
\* only from the coregistration directory, cropping only from the directory
\* of the stage before it.
C7_ReadsOnlyEarlierStages ==
    Constructed =>
        \A k \in LogIndex : \A q \in log[k].reads :
            CASE log[k].stage = "coregistration" -> IsInput(q)
              [] log[k].stage = "skullstripping" ->
                    /\ InFolder(q, FolderOf("coregistration"))
                    /\ \E j \in WrittenBefore(q, k) :
                          StageRank(log[j].stage) < StageRank(log[k].stage)
              [] log[k].stage = "cropping" ->
                    /\ InFolder(q, CropSource)
                    /\ \E j \in WrittenBefore(q, k) :
                          StageRank(log[j].stage) < StageRank(log[k].stage)

\* C7 (amended): every file a stage reads is an input (coregistration) or
\* was written earlier in this run, by an earlier stage or by the same stage;
\* skull-stripping reads the volumes it strips from the coregistration
\* directory and besides them only files it wrote itself in its own
\* directory; cropping reads only the skull-stripping directory when
\* do_skull_stripping and only the coregistration directory otherwise; no
\* stage reads a file of a later stage's directory.
C7_ReadsForward ==
    Constructed =>
        \A k \in LogIndex : \A q \in log[k].reads :
            CASE log[k].stage = "coregistration" -> IsInput(q)
              [] log[k].stage = "skullstripping" ->
                    /\ WrittenBefore(q, k) /= {}
                    /\ \/ /\ InFolder(q, FolderOf("coregistration"))
                          /\ \A j \in WrittenBefore(q, k) :
                                log[j].stage = "coregistration"
                       \/ /\ InFolder(q, FolderOf("skullstripping"))
                          /\ \A j \in WrittenBefore(q, k) :
                                log[j].stage = "skullstripping"
                    /\ log[k].call \in {"run_hd_bet", "resample"} =>
                          \E r \in log[k].reads : InFolder(r, FolderOf("coregistration"))
              [] log[k].stage = "cropping" ->
                    /\ InFolder(q, CropSource)
                    /\ \E j \in WrittenBefore(q, k) :
                          StageRank(log[j].stage) < StageRank(log[k].stage)

\* the skull-stripping stage has read back a file of its own directory and
\* the cropping stage has then read the skull-stripping directory
C7_Witness ==
    /\ pc = "done" /\ args.do_skull_stripping /\ args.crop
    /\ \E k \in StageEvents("skullstripping") : MaskFile \in log[k].reads
    /\ \E k \in StageEvents("cropping") :
          \E q \in log[k].reads : InFolder(q, FolderOf("skullstripping"))

EnabledFolders == {FolderOf(s) : s \in {t \in Stages : StageEnabled(t)}}

\* C8: after a successful run every enabled stage's directory holds one file
\* per modality named <prefix><modality> with that modality's result, a
\* <prefix>Label file with the label's result exactly when a label was
\* supplied, and the skull-stripping directory holds <prefix><reference>_mask
\* with the mask: no output is overwritten by the output of another input.
C8_OutputLayout ==
    pc = "done" =>
        /\ \A d \in EnabledFolders :
              /\ \A m \in Range(args.subject_dict) :
                    /\ File(d, self.prefix \o m) \in DOMAIN fs
                    /\ fs[File(d, self.prefix \o m)].of = "modality:" \o m
              /\ self.label_path /= NoPath =>
                    /\ File(d, self.prefix \o "Label") \in DOMAIN fs
                    /\ fs[File(d, self.prefix \o "Label")].of = "label"
              /\ self.label_path = NoPath =>
                    \A q \in DOMAIN fs : fs[q].of /= "label"
        /\ args.do_skull_stripping =>
              /\ MaskFile \in DOMAIN fs
              /\ fs[MaskFile].of = "mask"

ValidArguments ==
    /\ args.reference = None \/ args.reference \in Range(args.subject_dict)
    /\ args.missing = {}
    /\ args.label_path = NoPath \/ args.label_exists

\* C9: constructing a Preprocessor with a missing subject file, a missing
\* label file or a reference that is no key of subject_dict fails at
\* construction (and construction fails only then); with such arguments
\* nothing is ever processed: no folder is created, the atlas is not fetched,
\* no field is set, no file is written and no stage runs.
C9_ConstructionValidates ==
    /\ ~ValidArguments =>
          /\ pc \in {"new", "ctor_failed"}
          /\ dirs = {}
          /\ self = NoSelf
          /\ fs = InputFiles(args)
          /\ runs = 0 /\ log = <<>>
    /\ pc = "ctor_failed" => (~ValidArguments /\ error /= "")

\* construction has failed on a missing label although every stage was asked
C9_Witness ==
    /\ pc = "ctor_failed"
    /\ args.label_path /= NoPath /\ ~args.label_exists
    /\ args.missing = {} /\ args.reference = None
    /\ args.to_mni /\ args.do_skull_stripping /\ args.crop

\* C10: when a collaborator call fails during run, the exception reaches the
\* caller unmodified, the failing call writes and removes nothing, run is
\* over (no later call of the stage, no later stage, no retry), and every
\* file written before the failure stays as it was.
C10_FailurePropagates ==
    /\ [](pc = "failed" => (raised /= "" /\ error = raised))
    /\ []((pc \in Running \cup {"ready", "done"}) => raised = "")
    /\ [][(pc' = "failed" /\ pc /= "failed") => (fs' = fs /\ log' = log)]_vars
    /\ [][pc /= "failed"]_vars

\* the brain extraction has failed after the coregistration stage wrote files
C10_Witness ==
    /\ pc = "failed" /\ raised = "run_hd_bet"
    /\ Len(log) = 3
    /\ \A k \in LogIndex : log[k].writes \subseteq DOMAIN fs

\* --------------------------------------------- Spec: claims C13 - C17, C19
SkullEvents == StageEvents("skullstripping")
BrainExtractions == {k \in LogIndex : log[k].call = "run_hd_bet"}
SkullFinished ==
    args.do_skull_stripping /\ pc \in {"crop_box", "crop_img", "done"}

\* C13: within one run of the skull-stripping stage the brain-extraction
\* engine is invoked exactly once, on the coregistered reference, and the mask
\* file and the brain-extracted reference file it writes are never written
\* again by the stage: every later _apply_mask call only reads them.
C13_MaskWrittenOnce ==
    Constructed =>
        /\ Cardinality(BrainExtractions) <= 1
        /\ SkullFinished => Cardinality(BrainExtractions) = 1
        /\ \A k \in BrainExtractions :
              /\ log[k].reads = {CoregFile(self.reference)}
              /\ log[k].writes = {SkullFile(self.reference), MaskFile}
              /\ \A j \in SkullEvents : k <= j
        /\ \A k \in SkullEvents \ BrainExtractions :
              /\ log[k].writes \cap {SkullFile(self.reference), MaskFile} = {}
              /\ log[k].call = "resample" => SkullFile(self.reference) \in log[k].reads
              /\ log[k].call = "mask" => MaskFile \in log[k].reads

\* what does hold: the same, when no modality is named <reference>_mask and
\* none is named Label while a label is given
MaskWrittenOnceApart ==
    (/\ Constructed
     /\ (self.reference \o "_mask") \notin Range(args.subject_dict)
     /\ self.label_path = NoPath \/ "Label" \notin Range(args.subject_dict)) =>
        /\ Cardinality(BrainExtractions) <= 1
        /\ SkullFinished => Cardinality(BrainExtractions) = 1
        /\ \A k \in BrainExtractions :
              /\ log[k].reads = {CoregFile(self.reference)}
              /\ log[k].writes = {SkullFile(self.reference), MaskFile}
              /\ \A j \in SkullEvents : k <= j
        /\ \A k \in SkullEvents \ BrainExtractions :
              /\ log[k].writes \cap {SkullFile(self.reference), MaskFile} = {}
              /\ log[k].call = "resample" => SkullFile(self.reference) \in log[k].reads
              /\ log[k].call = "mask" => MaskFile \in log[k].reads

CoregEvents == StageEvents("coregistration")

\* C14: in every coregistration stage the reference modality is processed
\* first and completely (its registration to the atlas when to_mni, and the
\* write of its output) before any other modality is read or written; the
\* label, when present, is processed immediately after the reference and
\* before any non-reference modality.
C14_ReferenceFirst ==
    (Constructed /\ log /= <<>>) =>
        /\ log[1].stage = "coregistration"
        /\ IsReference(log[1].of)
        /\ log[1].call = (IF args.to_mni THEN "registration" ELSE "copy")
        /\ log[1].reads = {SubjectPath(self.reference)}
        /\ log[1].writes = {CoregFile(self.reference)}
        /\ self.label_path /= NoPath =>
              /\ pc \in (Running \ {"coreg_ref", "coreg_label"}) \cup {"done"} =>
                    Len(log) >= 2
              /\ Len(log) >= 2 =>
                    /\ log[2].stage = "coregistration" /\ log[2].of = "label"
                    /\ log[2].reads = {self.label_path}
        /\ \A k \in 2 .. Len(log) :
              /\ SubjectPath(self.reference) \notin log[k].reads
              /\ self.label_path = NoPath => log[k].of /= "label"
              /\ log[k].stage = "coregistration" =>
                    IF self.label_path /= NoPath /\ k = 2 THEN log[k].of = "label"
                    ELSE \E m \in Range(OtherModalities) :
                            /\ log[k].of = "modality:" \o m
                            /\ log[k].reads = {SubjectPath(m)}

\* a coregistration stage has processed the reference, the label and then a
\* second modality
C14_Witness ==
    /\ pc = "done" /\ self.label_path /= NoPath /\ args.to_mni
    /\ Len(args.subject_dict) = 2 /\ self.reference = args.subject_dict[2]
    /\ Len(log) >= 3 /\ log[3].of = "modality:" \o args.subject_dict[1]

\* the event a step appends to the log
Appended == Len(log') = Len(log) + 1
NewEvent == log'[Len(log')]
ReadsLabel(e) == \E q \in e.reads : q \in DOMAIN fs /\ fs[q].of = "label"

\* C15: in every configuration and every stage the label volume is never
\* resampled with an interpolator other than nearest-neighbor and is never the
\* moving image of a registration: in the atlas case it is warped only by
\* the reference's transform chain with nearest-neighbor interpolation,
\* otherwise it is copied unchanged.
C15_LabelNearestNeighbor ==
    [][(Constructed /\ Appended /\ (ReadsLabel(NewEvent) \/ NewEvent.of = "label")) =>
          /\ NewEvent.call /= "registration"
          /\ NewEvent.interp \in {"", "nearestNeighbor"}
          /\ NewEvent.call \in {"apply_transforms", "resample"} =>
                NewEvent.interp = "nearestNeighbor"
          /\ NewEvent.call = "apply_transforms" =>
                /\ args.to_mni
                /\ NewEvent.chain = log[1].chain
                /\ log[1].call = "registration" /\ IsReference(log[1].of)
                /\ log[1].chain.run = runs
          /\ (NewEvent.stage = "coregistration" /\ NewEvent.of = "label") =>
                /\ NewEvent.call = (IF args.to_mni THEN "apply_transforms" ELSE "copy")
                /\ NewEvent.call = "copy" =>
                      \A q \in NewEvent.writes : fs'[q] = fs[self.label_path]
      ]_vars

\* the label was warped onto the atlas and resampled by the skull-stripping
\* stage
C15_Witness ==
    /\ pc = "done" /\ args.to_mni /\ args.do_skull_stripping
    /\ \E k \in CoregEvents : log[k].of = "label" /\ log[k].call = "apply_transforms"
    /\ \E k \in SkullEvents : log[k].of = "label" /\ log[k].call = "resample"

\* the keys a caller may use, in lexicographic order
NameOrder == <<"Label", "T1", "T1_mask", "T2">>
Position(n) == CHOOSE k \in 1 .. Len(NameOrder) : NameOrder[k] = n

\* C16: when no reference is supplied the reference modality is the
\* lexicographically smallest key of the subject mapping; when one is supplied
\* and is a key it is used unchanged; in both cases the reference is a key of
\* the subject mapping for the whole lifetime of the pipeline.
C16_ReferenceIsKey ==
    Constructed =>
        /\ self.reference \in Range(args.subject_dict)
        /\ args.reference = None =>
              \A n \in Range(args.subject_dict) :
                  Position(self.reference) <= Position(n)
        /\ args.reference /= None => self.reference = args.reference

\* no reference was supplied and the first key passed is not the smallest
C16_Witness ==
    /\ pc = "done" /\ runs = 2 /\ args.reference = None
    /\ args.subject_dict = <<"T1", "Label">> /\ self.reference = "Label"

\* C17: calling run a second time on the same Preprocessor re-executes every
\* enabled stage from the subject inputs and overwrites the same output
\* files: the files and their contents after the second run equal those after
\* the first, and no stage input of the second run is an output of a later
\* stage of the first run (every file read is an input or was written earlier
\* in the same run).
C17_RerunIdempotent ==
    []((Constructed /\ runs >= 2) =>
        /\ \A k \in LogIndex :
              /\ log[k].writes \subseteq DOMAIN before
              /\ \A q \in log[k].reads :
                    IF log[k].stage = "coregistration" THEN IsInput(q)
                    ELSE \E j \in 1 .. k - 1 : q \in log[j].writes
        /\ DOMAIN fs = DOMAIN before
        /\ pc = "done" =>
              /\ fs = before
              /\ \A s \in Stages :
                    StageEnabled(s) => Cardinality(StageEvents(s)) = StageLength(s))

\* a second run of all three stages with registrations has returned
C17_Witness ==
    /\ pc = "done" /\ runs = 2
    /\ args.to_mni /\ ~args.do_coregistration
    /\ args.do_skull_stripping /\ args.crop
    /\ Len(args.subject_dict) = 2 /\ self.label_path /= NoPath
    /\ fs = before

Cropping == pc \in {"crop_box", "crop_img"}
BoxGrid == fs[SkullFile(self.reference)].grid
SharedGrid(item) == fs[item.input_path].grid = BoxGrid
NoLabelClash == self.label_path = NoPath \/ "Label" \notin Range(args.subject_dict)
GridEstablished ==
    args.to_mni \/ ~args.do_coregistration \/ args.do_skull_stripping

Intensity(v) == 1 + ((v[1] + 2 * v[2] + 3 * v[3]) % 2)

Shapes3 ==
    {s \in (1 .. MaxDim) \X (1 .. MaxDim) \X (1 .. MaxDim) :
        s[1] * s[2] * s[3] <= MaxVoxels}

RECURSIVE SubsetsUpTo(_, _)
SubsetsUpTo(k, G) ==
    IF k = 0 THEN {{}}
    ELSE LET P == SubsetsUpTo(k - 1, G) IN P \cup {S \cup {v} : S \in P, v \in G}

\* a uniform background (zero or not) in which at most MaxSparse voxels differ
SparseArrays(shape) ==
    {[shape |-> shape,
      data  |-> [v \in Grid(shape) |->
                   IF (v \in S) = zero_bg THEN Intensity(v) ELSE 0]] :
        zero_bg \in BOOLEAN, S \in SubsetsUpTo(MaxSparse, Grid(shape))}

\* a non-zero box [lo, hi) in a zero background
BoxArrays(shape) ==
    LET Ivl(d) == {iv \in (0 .. d - 1) \X (1 .. d) : iv[1] < iv[2]}
    IN  {[shape |-> shape,
          data  |-> [v \in Grid(shape) |->
                       IF /\ bx[1] <= v[1] /\ v[1] < bx[2]
                          /\ by[1] <= v[2] /\ v[2] < by[2]
                          /\ bz[1] <= v[3] /\ v[3] < bz[2]
                       THEN Intensity(v) ELSE 0]] :
            bx \in Ivl(shape[1]), by \in Ivl(shape[2]), bz \in Ivl(shape[3])}

\* a 4-D array of t_dim frames whose maximum over the 4th axis is arr:
\* frame t holds the x-planes of arr with x % t_dim = t, zero elsewhere
Frames(arr, t_dim) ==
    [shape |-> arr.shape \o <<t_dim>>,
     data  |-> [v \in Grid(arr.shape \o <<t_dim>>) |->
                  IF v[1] % t_dim = v[4] THEN arr.data[<<v[1], v[2], v[3]>>] ELSE 0]]

\* a second volume on the same grid, no voxel of it zero
Coded(shape) ==
    [shape |-> shape,
     data  |-> [v \in Grid(shape) |->
                  1 + v[1] + MaxDim * v[2] + MaxDim * MaxDim * v[3]]]

NoRet ==
    [bounds |-> <<>>, low |-> <<>>, high |-> <<>>, outputs |-> <<>>,
     call |-> <<>>, files |-> <<>>]

\* ---- _apply_mask on voxel data
\* an image file: the voxel array and where its grid lies (the index of its
\* first voxel in a common frame; all spacings and directions equal)
Image(arr, origin) == [shape |-> arr.shape, data |-> arr.data, origin |-> origin]

\* the mask run_hd_bet writes for a volume: 1 inside the brain, 0 outside
Binary(arr) ==
    [shape |-> arr.shape,
     data  |-> [v \in Grid(arr.shape) |-> IF arr.data[v] = 0 THEN 0 ELSE 1]]

\* sitk.Resample(input_img, ref_img, sitk.Transform(), sitk.sitkNearestNeighbor):
\* every voxel of the reference grid takes the input voxel at its position,
\* the default value 0 where the input has none
Resample(input_img, ref_img) ==
    [shape |-> ref_img.shape, origin |-> ref_img.origin,
     data  |-> [v \in Grid(ref_img.shape) |->
                  LET u == <<v[1] + ref_img.origin[1] - input_img.origin[1],
                             v[2] + ref_img.origin[2] - input_img.origin[2],
                             v[3] + ref_img.origin[3] - input_img.origin[3]>>
                  IN  IF u \in Grid(input_img.shape) THEN input_img.data[u] ELSE 0]]

\* output_data[mask_data == 0] = 0
Masked(output_data, mask_data) ==
    [v \in DOMAIN output_data |-> IF mask_data[v] = 0 THEN 0 ELSE output_data[v]]

\* _apply_mask(input_path, output_path, reference, mask) on the files given
apply_mask(files, input_path, output_path, reference, mask) ==
    LET input_img == files[input_path]
        ref_img == files[reference]
        written == Put(files, output_path, Resample(input_img, ref_img))
        output_img == written[output_path]
        mask_data == written[mask].data
    IN  Put(written, output_path,
            [output_img EXCEPT !.data = Masked(output_img.data, mask_data)])

\* the paths _run_skullstripping may pass as output_path: a file of its own,
\* or mask_sk itself when the modality is named <reference>_mask
OutputPaths == {"out.nii.gz", "ref_mask.nii.gz"}

\* the offsets of the input's grid against the reference's
Offsets == {<<0, 0, 0>>, <<1, 0, 0>>}

\* the pipeline variables are not used by SpecVol
PipelineOff ==
    /\ args = <<>> /\ self = <<>> /\ dirs = {} /\ fs = <<>> /\ pc = "off"
    /\ i = 0 /\ locals = <<>> /\ log = <<>> /\ runs = 0
    /\ raised = "" /\ error = "" /\ before = <<>>

VolInit ==
    /\ \E shape \in Shapes3 :
          \/ img_array \in SparseArrays(shape)
          \/ img_array \in BoxArrays(shape)
          \/ \E arr \in BoxArrays(shape), t_dim \in 2 .. MaxFrames :
                img_array = Frames(arr, t_dim)
    /\ vpc = "input"
    /\ ret = NoRet
    /\ PipelineOff

\* find_zeros(img_array)
FindZerosCall ==
    /\ vpc = "input"
    /\ vpc' = "find_zeros"
    /\ ret' = [NoRet EXCEPT !.bounds = find_zeros(img_array)]
    /\ UNCHANGED <<img_array, ppvars>>

\* crop_scans(reference, inputs, outputs): the reference file holds img_array,
\* the inputs are the reference itself and a second volume on its grid
CropScansCall ==
    /\ vpc = "input"
    /\ Len(img_array.shape) = 3
    /\ vpc' = "crop_scans"
    /\ ret' = crop_scans(img_array, <<img_array, Coded(img_array.shape)>>)
    /\ UNCHANGED <<img_array, ppvars>>

\* the files of one _apply_mask call: the reference file holds arr, the mask
\* file its brain mask, the input file a volume of the same shape
MaskFiles(arr, offset) ==
    ("in.nii.gz" :> Image(Coded(arr.shape), offset))
        @@ ("ref.nii.gz" :> Image(arr, <<0, 0, 0>>))
        @@ ("ref_mask.nii.gz" :> Image(Binary(arr), <<0, 0, 0>>))

\* _apply_mask(input_path, output_path, reference, mask)
ApplyMaskCall ==
    /\ vpc = "input"
    /\ Len(img_array.shape) = 3
    /\ vpc' = "apply_mask"
    /\ \E output_path \in OutputPaths, offset \in Offsets :
          ret' = [NoRet EXCEPT
                    !.call = [input_path |-> "in.nii.gz", output_path |-> output_path,
                              reference |-> "ref.nii.gz", mask |-> "ref_mask.nii.gz",
                              offset |-> offset],
                    !.files = apply_mask(MaskFiles(img_array, offset), "in.nii.gz",
                                         output_path, "ref.nii.gz", "ref_mask.nii.gz")]
    /\ UNCHANGED <<img_array, ppvars>>

VolNext == FindZerosCall \/ CropScansCall \/ ApplyMaskCall

SpecVol == VolInit /\ [][VolNext]_vars

\* ------------------------------------------- SpecVol: claims C1, C2, C3
Is3D == Len(img_array.shape) = 3
NonZeroVoxels == {v \in Grid(img_array.shape) : img_array.data[v] /= 0}
HasNonZero == NonZeroVoxels /= {}
HasZero == \E v \in Grid(img_array.shape) : img_array.data[v] = 0

\* the non-zero extent of axis a: the first index whose plane holds a non-zero
\* voxel, and one past the last such index
Extent(a) ==
    <<SetMin({v[a] : v \in NonZeroVoxels}), SetMax({v[a] : v \in NonZeroVoxels}) + 1>>

ExtentBox == <<Extent(1)[1], Extent(1)[2], Extent(2)[1], Extent(2)[2],
               Extent(3)[1], Extent(3)[2]>>

FullBox == <<0, img_array.shape[1], 0, img_array.shape[2], 0, img_array.shape[3]>>

\* the first and the last plane along every axis are uniformly zero
Padded ==
    \A v \in Grid(img_array.shape) :
        (\E a \in 1 .. 3 : v[a] = 0 \/ v[a] = img_array.shape[a] - 1)
            => img_array.data[v] = 0

\* C1: for every 3-D volume with a non-zero voxel, find_zeros returns on each
\* axis the minimal enclosing bounds of the non-zero voxels, so that no
\* non-zero voxel lies outside the returned box.
C1_MinimalBox ==
    (vpc = "find_zeros" /\ Is3D /\ HasNonZero) => ret.bounds = ExtentBox

\* C2: for every 3-D volume whose first and last plane along every axis are
\* uniformly zero and that has a non-zero voxel, find_zeros returns the
\* non-zero extent on each axis.
C2_PaddedCore ==
    (vpc = "find_zeros" /\ Is3D /\ Padded /\ HasNonZero) => ret.bounds = ExtentBox

\* a padded volume whose core spans two planes along x and one along y
C2_Witness ==
    /\ vpc = "find_zeros" /\ Is3D /\ Padded /\ HasNonZero
    /\ ret.bounds[2] - ret.bounds[1] = 2
    /\ ret.bounds[4] - ret.bounds[3] = 1

\* C3: for every 3-D volume with no zero voxel, find_zeros returns (0, dim) on
\* every axis, and crop_scans trims nothing from any axis.
C3_DenseNoTrim ==
    (vpc \in {"find_zeros", "crop_scans"} /\ Is3D /\ ~HasZero) =>
        /\ ret.bounds = FullBox
        /\ vpc = "crop_scans" =>
              /\ ret.low = <<0, 0, 0>>
              /\ ret.high = <<0, 0, 0>>
              /\ \A k \in 1 .. Len(ret.outputs) : ret.outputs[k].shape = img_array.shape

\* crop_scans has run on a dense volume of three different extents
C3_Witness ==
    /\ vpc = "crop_scans" /\ Is3D /\ ~HasZero
    /\ img_array.shape = <<3, 2, 1>>
    /\ ret.outputs[1] = img_array

\* ------------------------------------- SpecVol: claims C11, C12, C18
\* the arguments of the _apply_mask call and the files before it
MaskInput == MaskFiles(img_array, ret.call.offset)[ret.call.input_path]
MaskReference == MaskFiles(img_array, ret.call.offset)[ret.call.reference]
MaskGiven == MaskFiles(img_array, ret.call.offset)[ret.call.mask]
MaskOutput == ret.files[ret.call.output_path]
OnReferenceGrid ==
    /\ MaskInput.shape = MaskReference.shape
    /\ MaskInput.origin = MaskReference.origin
    /\ MaskGiven.shape = MaskReference.shape
    /\ MaskGiven.origin = MaskReference.origin

\* the output is the input inside the mask and zero outside
MaskedInput ==
    \A v \in Grid(MaskGiven.shape) :
        /\ MaskGiven.data[v] = 0 => MaskOutput.data[v] = 0
        /\ MaskGiven.data[v] = 1 => MaskOutput.data[v] = MaskInput.data[v]

\* C11: for every input volume and binary mask on the reference's grid,
\* _apply_mask writes an output in which every voxel where the mask is 0 is 0
\* and every voxel where the mask is 1 has exactly the input's value.
C11_MaskApplied ==
    (vpc = "apply_mask" /\ OnReferenceGrid) => MaskedInput

\* what does hold: the same, when output_path is not the path of the mask
MaskAppliedApart ==
    (vpc = "apply_mask" /\ OnReferenceGrid
        /\ ret.call.output_path /= ret.call.mask) =>
            /\ MaskedInput
            /\ MaskOutput.shape = MaskReference.shape
            /\ MaskOutput.origin = MaskReference.origin
            /\ ret.files[ret.call.mask] = MaskGiven

\* a mask with voxels inside and outside was applied to a file of its own
MaskAppliedApartWitness ==
    /\ vpc = "apply_mask" /\ OnReferenceGrid
    /\ ret.call.output_path /= ret.call.mask
    /\ \E v, w \in Grid(MaskGiven.shape) : MaskGiven.data[v] = 0 /\ MaskGiven.data[w] = 1

CropInputs == <<img_array, Coded(img_array.shape)>>
BoxShape ==
    <<ret.bounds[2] - ret.bounds[1], ret.bounds[4] - ret.bounds[3],
      ret.bounds[6] - ret.bounds[5]>>

\* C12: crop_scans derives the bounding box once from the reference and trims
\* every (input, output) pair by the same low amounts (x_min, y_min, z_min) and
\* high amounts (dim - x_max, dim - y_max, dim - z_max): inputs of identical
\* shape yield outputs of identical shape, and an input with the reference's
\* shape yields an output of shape (x_max - x_min, y_max - y_min,
\* z_max - z_min) that equals the input restricted to the box.
C12_SameTrim ==
    vpc = "crop_scans" =>
        /\ ret.bounds = find_zeros(img_array)
        /\ ret.low = <<ret.bounds[1], ret.bounds[3], ret.bounds[5]>>
        /\ ret.high = <<img_array.shape[1] - ret.bounds[2],
                        img_array.shape[2] - ret.bounds[4],
                        img_array.shape[3] - ret.bounds[6]>>
        /\ Len(ret.outputs) = Len(CropInputs)
        /\ \A j, k \in 1 .. Len(CropInputs) :
              CropInputs[j].shape = CropInputs[k].shape =>
                  ret.outputs[j].shape = ret.outputs[k].shape
        /\ \A k \in 1 .. Len(CropInputs) :
              /\ ret.outputs[k].shape = BoxShape
              /\ \A u \in Grid(img_array.shape) :
                    (\A a \in 1 .. 3 :
                        ret.bounds[2 * a - 1] <= u[a] /\ u[a] < ret.bounds[2 * a]) =>
                            ret.outputs[k].data[<<u[1] - ret.low[1], u[2] - ret.low[2],
                                                  u[3] - ret.low[3]>>]
                                = CropInputs[k].data[u]

\* planes were trimmed below and above along x, and below along z
C12_Witness ==
    /\ vpc = "crop_scans"
    /\ ret.low[1] = 1 /\ ret.high[1] = 1 /\ ret.low[3] = 1
    /\ ret.outputs[2].shape = BoxShape

\* C18: for every 3-D volume with all dimensions at least 1 (all-zero volumes
\* and volumes with scattered zeros included) find_zeros returns on each axis
\* integers with 0 <= min < max <= dim, so the low and high amounts of
\* crop_scans are non-negative, their sum is less than the dimension, and no
\* cropped volume is empty.
C18_BoundsInRange ==
    (vpc \in {"find_zeros", "crop_scans"} /\ Is3D) =>
        /\ \A a \in 1 .. 3 :
              /\ ret.bounds[2 * a - 1] \in Nat /\ ret.bounds[2 * a] \in Nat
              /\ ret.bounds[2 * a - 1] < ret.bounds[2 * a]
              /\ ret.bounds[2 * a] <= img_array.shape[a]
        /\ vpc = "crop_scans" =>
              \A a \in 1 .. 3 :
                  /\ ret.low[a] \in Nat /\ ret.high[a] \in Nat
                  /\ ret.low[a] + ret.high[a] < img_array.shape[a]
                  /\ \A k \in 1 .. Len(ret.outputs) : ret.outputs[k].shape[a] >= 1

\* crop_scans has run on an all-zero volume
C18_Witness ==
    /\ vpc = "crop_scans" /\ Is3D /\ ~HasNonZero
    /\ img_array.shape = <<2, 2, 2>>
    /\ ret.outputs[1] = img_array

====
